---- MODULE Spec2Model ----
(***************************************************************************)
(* Model of app/main.py: the /process/ handler process_article and its    *)
(* helpers _scrape_with_newspaper and _normalize_text.                     *)
(*                                                                         *)
(* A Python str is modelled run-length encoded: a sequence of runs         *)
(* [c |-> character, n |-> repetitions] in which neighbouring runs hold    *)
(* different characters.  len(), strip(), split() and " ".join() are       *)
(* computed on that encoding, so that texts on both sides of the           *)
(* 200-character threshold are within reach of the model checker.          *)
(*                                                                         *)
(* An Optional[str] is None or Some(s).  The external capabilities         *)
(* (newspaper's Article, analyze_sentiment, classify_political_bias,       *)
(* extract_topics, fetch_articles) are black boxes: each call is logged    *)
(* with its argument and either returns any value of its result set or     *)
(* raises.                                                                 *)
(***************************************************************************)
EXTENDS Integers, Sequences, FiniteSets, TLC

\* ---------------------------------------------------------------- bounds
\* longest request text / article text, in runs
MaxRuns == 4
\* longest article text the scraper returns, in runs
MaxArticleRuns == 3
\* longest list fetch_articles returns
MaxFetched == 8

\* ------------------------------------------------------ program constants
\* len(text) < 200
ShortTextLimit == 200
\* related[:7]
RelatedCap == 7

\* ---------------------------------------------------------------- strings
WhitespaceChars == {" ", "\n"}
TokenChars == {"a"}
Chars == WhitespaceChars \cup TokenChars

IsSpace(c) == c \in WhitespaceChars

RunLens(c) == IF IsSpace(c) THEN {1} ELSE {1, 99, 100}

Runs == UNION {{[c |-> ch, n |-> k] : k \in RunLens(ch)} : ch \in Chars}

Canonical(s) == \A i \in 1..(Len(s) - 1) : s[i].c # s[i + 1].c

StringsUpTo(k) == {s \in UNION {[1..m -> Runs] : m \in 0..k} : Canonical(s)}

\* len(s)
RECURSIVE StrLen(_)
StrLen(s) == IF s = <<>> THEN 0 ELSE Head(s).n + StrLen(Tail(s))

\* a + b
Concat(a, b) ==
  IF a = <<>> THEN b
  ELSE IF b = <<>> THEN a
  ELSE IF a[Len(a)].c = b[1].c
       THEN SubSeq(a, 1, Len(a) - 1)
            \o <<[c |-> b[1].c, n |-> a[Len(a)].n + b[1].n]>>
            \o Tail(b)
       ELSE a \o b

RECURSIVE LStrip(_)
LStrip(s) ==
  IF s # <<>> /\ IsSpace(Head(s).c) THEN LStrip(Tail(s)) ELSE s

RECURSIVE RStrip(_)
RStrip(s) ==
  IF s # <<>> /\ IsSpace(s[Len(s)].c)
  THEN RStrip(SubSeq(s, 1, Len(s) - 1))
  ELSE s

\* s.strip()
Strip(s) == RStrip(LStrip(s))

\* s.split(): the maximal whitespace-free pieces of s, in order
RECURSIVE SplitFrom(_, _, _)
SplitFrom(s, cur, acc) ==
  IF s = <<>>
  THEN IF cur = <<>> THEN acc ELSE Append(acc, cur)
  ELSE IF IsSpace(Head(s).c)
       THEN SplitFrom(Tail(s), <<>>,
                      IF cur = <<>> THEN acc ELSE Append(acc, cur))
       ELSE SplitFrom(Tail(s), Append(cur, Head(s)), acc)

Split(s) == SplitFrom(s, <<>>, <<>>)

\* sep.join(parts)
RECURSIVE Join(_, _)
Join(sep, parts) ==
  IF parts = <<>> THEN <<>>
  ELSE IF Len(parts) = 1 THEN parts[1]
  ELSE Concat(Concat(parts[1], sep), Join(sep, Tail(parts)))

Space == <<[c |-> " ", n |-> 1]>>

\* ------------------------------------------------------------- Optional
None == [null |-> TRUE]
Some(s) == [null |-> FALSE, val |-> s]

\* x or ""
OrEmpty(x) == IF x = None \/ x.val = <<>> THEN <<>> ELSE x.val

\* (mutant) x alone: the strip() forgotten
NonBlankNoStrip(x) == x # None /\ x.val # <<>>

\* x and x.strip()
NonBlank(x) == x # None /\ x.val # <<>> /\ Strip(x.val) # <<>>

\* (mutant) s.replace("  ", " "): one pass halves every run of spaces
normalize_textOnePass(s) ==
  [i \in 1..Len(OrEmpty(s)) |->
     IF IsSpace(OrEmpty(s)[i].c)
     THEN [c |-> OrEmpty(s)[i].c, n |-> (OrEmpty(s)[i].n + 1) \div 2]
     ELSE OrEmpty(s)[i]]

\* (mutant) (s or "").strip(): the inner whitespace left alone
normalize_textStripOnly(s) == Strip(OrEmpty(s))

\* " ".join((s or "").split())
normalize_text(s) == Join(Space, Split(OrEmpty(s)))

\* (art.text or "").strip()
scrape_with_newspaper(art_text) == Strip(OrEmpty(art_text))

\* ------------------------------------------------------ request inputs
\* class ArticleRequest: text: str | None = None; url: str | None = None
Texts == {None} \cup {Some(s) : s \in StringsUpTo(MaxRuns)}

Urls == {None,
         Some(<<>>),
         Some(<<[c |-> " ", n |-> 1]>>),
         Some(<<[c |-> " ", n |-> 1], [c |-> "a", n |-> 99],
                [c |-> "\n", n |-> 1]>>)}

ArticleRequest == [text : Texts, url : Urls]

\* ------------------------------------------------ external capabilities
Capabilities == {"_scrape_with_newspaper", "analyze_sentiment",
                 "classify_political_bias", "extract_topics",
                 "fetch_articles"}

Analyzers == {"analyze_sentiment", "classify_political_bias",
              "extract_topics"}

\* art.text after download() and parse()
ArticleTexts == {None} \cup {Some(s) : s \in StringsUpTo(MaxArticleRuns)}

\* what download() / parse() raise
ScrapeErrors == {"timed out", "not an article"}

SentimentValues == {"positive", "negative"}
BiasValues == {"left", "center"}
KeywordSets == {<<>>, <<"economy", "election">>}
ArticleLists == {[i \in 1..k |-> i] : k \in 0..MaxFetched}

Results(f) ==
  CASE f = "analyze_sentiment" -> SentimentValues
    [] f = "classify_political_bias" -> BiasValues
    [] f = "extract_topics" -> KeywordSets
    [] f = "fetch_articles" -> ArticleLists

\* the exception a capability raises
ErrorOf(f) ==
  CASE f = "analyze_sentiment" -> "SentimentError"
    [] f = "classify_political_bias" -> "BiasError"
    [] f = "extract_topics" -> "TopicError"
    [] f = "fetch_articles" -> "RetrievalError"

NoExc == "no exception"

\* ------------------------------------------------------- asyncio tasks
Tasks == {"sentiment_task", "bias_task", "topics_task"}

TaskFn(t) ==
  CASE t = "sentiment_task" -> "analyze_sentiment"
    [] t = "bias_task" -> "classify_political_bias"
    [] t = "topics_task" -> "extract_topics"

\* ---------------------------------------------------------------- state
VARIABLES
  req,         \* the ArticleRequest being handled
  pc,          \* where process_article stands
  raw_text,    \* local raw_text (None while unbound)
  text,        \* local text (None while unbound)
  scrape_exc,  \* the exception e caught at the scrape, or NoExc
  calls,       \* per capability, the arguments of its calls, in order
  returns,     \* per capability, the values it returned, in order
  task,        \* per task: "unborn", "submitted", "running", "ok", "failed"
  result,      \* per task, its result once "ok"
  gather_exc,  \* the first exception raised by a task, or NoExc
  finished,    \* the tasks in the order they completed
  sentiment,   \* locals bound by the gather
  bias,
  keywords,
  related,     \* local related (the list fetch_articles returned)
  outcome,     \* how the handler ended: a response, or a raised exception
  other        \* the frame of a second, suspended call of the handler

vars == <<req, pc, raw_text, text, scrape_exc, calls, returns, task, result,
          gather_exc, finished, sentiment, bias, keywords, related, outcome,
          other>>

locals == <<sentiment, bias, keywords, related>>
taskvars == <<task, result, gather_exc, finished>>

Unbound == "unbound"
\* a list-valued local not yet assigned (keywords; related, whose
\* articles are numbered from 1)
UnboundKeywords == <<"unbound">>
UnboundArticles == <<0>>
UnboundResult(t) == IF t = "topics_task" THEN UnboundKeywords ELSE Unbound
Pending == [kind |-> "pending"]
Response(body) == [kind |-> "response", body |-> body]
Raised(e) == [kind |-> "raised", exc |-> e]

\* no second call
NoFrame == [pc |-> "absent"]

Init ==
  /\ other = NoFrame
  /\ req \in ArticleRequest
  /\ pc = "pick_source"
  /\ raw_text = None
  /\ text = None
  /\ scrape_exc = NoExc
  /\ calls = [f \in Capabilities |-> <<>>]
  /\ returns = [f \in Capabilities |-> <<>>]
  /\ task = [t \in Tasks |-> "unborn"]
  /\ result = [t \in Tasks |-> UnboundResult(t)]
  /\ gather_exc = NoExc
  /\ finished = <<>>
  /\ sentiment = Unbound
  /\ bias = Unbound
  /\ keywords = UnboundKeywords
  /\ related = UnboundArticles
  /\ outcome = Pending

Call(f, arg) == [calls EXCEPT ![f] = Append(@, arg)]
Return(f, v) == [returns EXCEPT ![f] = Append(@, v)]

\* ---------------------------------------------------- process_article
\* (mutant) the url looked at before the text
SourceOfUrlFirst(r) ==
  IF NonBlank(r.url) THEN "url"
  ELSE IF NonBlank(r.text) THEN "text"
  ELSE "none"

\* 1) pick source: the if / elif / else over req.text and req.url
SourceOf(r) ==
  IF NonBlank(r.text) THEN "text"
  ELSE IF NonBlank(r.url) THEN "url"
  ELSE "none"

InvalidRequestMsg == <<"Please provide either text or a valid URL.">>

\* f"Failed to extract article from URL: {e}"
ExtractionFailedMsg(e) == <<"Failed to extract article from URL: ", e>>

ShortNote ==
  "Input is quite short; topic extraction is less reliable on short texts."

PickSource ==
  /\ pc = "pick_source"
  /\ CASE SourceOf(req) = "text" ->
            /\ raw_text' = Some(Strip(req.text.val))
            /\ pc' = "normalize"
            /\ UNCHANGED outcome
       [] SourceOf(req) = "url" ->
            /\ pc' = "scrape"
            /\ UNCHANGED <<raw_text, outcome>>
       [] SourceOf(req) = "none" ->
            /\ outcome' = Response([error |-> InvalidRequestMsg])
            /\ pc' = "done"
            /\ UNCHANGED raw_text
  /\ UNCHANGED <<other, req, text, scrape_exc, calls, returns, taskvars, locals>>

\* (mutant) an article without text reported as an extraction failure
ScrapeReturnRejectEmpty(art_text) ==
  /\ pc = "scrape"
  /\ calls' = Call("_scrape_with_newspaper", Strip(req.url.val))
  /\ returns' = Return("_scrape_with_newspaper",
                       scrape_with_newspaper(art_text))
  /\ IF scrape_with_newspaper(art_text) = <<>>
     THEN /\ outcome' = Response([error |-> ExtractionFailedMsg("no text")])
          /\ pc' = "done"
          /\ UNCHANGED raw_text
     ELSE /\ raw_text' = Some(scrape_with_newspaper(art_text))
          /\ pc' = "normalize"
          /\ UNCHANGED outcome
  /\ UNCHANGED <<other, req, text, scrape_exc, taskvars, locals>>

\* raw_text = _scrape_with_newspaper(req.url.strip()), returning
ScrapeReturn(art_text) ==
  /\ pc = "scrape"
  /\ calls' = Call("_scrape_with_newspaper", Strip(req.url.val))
  /\ returns' = Return("_scrape_with_newspaper",
                       scrape_with_newspaper(art_text))
  /\ raw_text' = Some(scrape_with_newspaper(art_text))
  /\ pc' = "normalize"
  /\ UNCHANGED <<other, req, text, scrape_exc, taskvars, locals, outcome>>

\* (mutant) the exception swallowed, the handler going on with no text
ScrapeRaiseSwallowed(e) ==
  /\ pc = "scrape"
  /\ calls' = Call("_scrape_with_newspaper", Strip(req.url.val))
  /\ scrape_exc' = e
  /\ raw_text' = Some(<<>>)
  /\ pc' = "normalize"
  /\ UNCHANGED <<other, req, text, returns, taskvars, locals, outcome>>

\* except Exception as e: return {"error": ...}
ScrapeRaise(e) ==
  /\ pc = "scrape"
  /\ calls' = Call("_scrape_with_newspaper", Strip(req.url.val))
  /\ scrape_exc' = e
  /\ outcome' = Response([error |-> ExtractionFailedMsg(e)])
  /\ pc' = "done"
  /\ UNCHANGED <<other, req, raw_text, text, returns, taskvars, locals>>

\* (mutant) the threshold itself counted as short
IsShortInclusive(s) == StrLen(s) <= ShortTextLimit

\* len(text) < 200
IsShort(s) == StrLen(s) < ShortTextLimit

\* text = _normalize_text(raw_text), then the branch on len(text)
Normalize ==
  /\ pc = "normalize"
  /\ text' = Some(normalize_text(raw_text))
  /\ pc' = IF IsShort(normalize_text(raw_text)) THEN "short" ELSE "dispatch"
  /\ UNCHANGED <<other, req, raw_text, scrape_exc, calls, returns, taskvars, locals,
                 outcome>>

\* (mutant) the short path answering with a constant sentiment
ShortResponseFixedSentiment(s) ==
  [keywords |-> <<"news", "world", "article">>,
   sentiment |-> "positive",
   bias |-> "center",
   related_articles |-> <<>>,
   note |-> ShortNote]

\* the dict returned on the short path
ShortResponse(s) ==
  [keywords |-> <<"news", "world", "article">>,
   sentiment |-> s,
   bias |-> "center",
   related_articles |-> <<>>,
   note |-> ShortNote]

\* "sentiment": analyze_sentiment(text), returning
ShortReturn(s) ==
  /\ pc = "short"
  /\ calls' = Call("analyze_sentiment", text.val)
  /\ returns' = Return("analyze_sentiment", s)
  /\ outcome' = Response(ShortResponse(s))
  /\ pc' = "done"
  /\ UNCHANGED <<other, req, raw_text, text, scrape_exc, taskvars, locals>>

\* analyze_sentiment(text) raising: nothing catches it
ShortRaise ==
  /\ pc = "short"
  /\ calls' = Call("analyze_sentiment", text.val)
  /\ outcome' = Raised(ErrorOf("analyze_sentiment"))
  /\ pc' = "done"
  /\ UNCHANGED <<other, req, raw_text, text, scrape_exc, returns, taskvars, locals>>

\* 2) the three asyncio.to_thread(...) handed to asyncio.gather
Dispatch ==
  /\ pc = "dispatch"
  /\ task' = [t \in Tasks |-> "submitted"]
  /\ pc' = "gather"
  /\ UNCHANGED <<other, req, raw_text, text, scrape_exc, calls, returns, result,
                 gather_exc, finished, locals, outcome>>

\* (mutant) one task handed raw_text instead of text
TaskArgRaw(t) == IF t = "bias_task" THEN raw_text.val ELSE text.val

\* the argument bound to each to_thread call
TaskArg(t) == text.val

\* a worker thread starts the task's function
TaskStart(t) ==
  /\ task[t] = "submitted"
  /\ task' = [task EXCEPT ![t] = "running"]
  /\ calls' = Call(TaskFn(t), TaskArg(t))
  /\ UNCHANGED <<other, req, pc, raw_text, text, scrape_exc, returns, result,
                 gather_exc, finished, locals, outcome>>

\* the function returns v
TaskReturn(t, v) ==
  /\ task[t] = "running"
  /\ task' = [task EXCEPT ![t] = "ok"]
  /\ result' = [result EXCEPT ![t] = v]
  /\ returns' = Return(TaskFn(t), v)
  /\ finished' = Append(finished, t)
  /\ UNCHANGED <<other, req, pc, raw_text, text, scrape_exc, calls, gather_exc,
                 locals, outcome>>

\* (mutant) the task's exception never reaches gather
TaskRaiseLost(t) ==
  /\ task[t] = "running"
  /\ task' = [task EXCEPT ![t] = "failed"]
  /\ finished' = Append(finished, t)
  /\ UNCHANGED <<other, req, pc, raw_text, text, scrape_exc, calls, returns, result,
                 gather_exc, locals, outcome>>

\* the function raises; gather keeps the first exception
TaskRaise(t) ==
  /\ task[t] = "running"
  /\ task' = [task EXCEPT ![t] = "failed"]
  /\ gather_exc' = IF gather_exc = NoExc THEN ErrorOf(TaskFn(t))
                   ELSE gather_exc
  /\ finished' = Append(finished, t)
  /\ UNCHANGED <<other, req, pc, raw_text, text, scrape_exc, calls, returns, result,
                 locals, outcome>>

\* (mutant) gather(..., return_exceptions=True): failures count as results
JoinReadyReturnExceptions == \A t \in Tasks : task[t] \in {"ok", "failed"}

\* (mutant) only the topics task awaited before going on
JoinReadyTopicsOnly == task["topics_task"] = "ok"

\* gather has every result
JoinReady == \A t \in Tasks : task[t] = "ok"

\* (mutant) the unpacking order not that of gather's arguments
GatherResultsSwapped ==
  <<result["bias_task"], result["sentiment_task"], result["topics_task"]>>

\* gather's result list: in the order of its arguments
GatherResults ==
  <<result["sentiment_task"], result["bias_task"], result["topics_task"]>>

\* sentiment, bias, keywords = await asyncio.gather(...), returning
JoinOk ==
  /\ pc = "gather"
  /\ JoinReady
  /\ sentiment' = GatherResults[1]
  /\ bias' = GatherResults[2]
  /\ keywords' = GatherResults[3]
  /\ pc' = "fetch"
  /\ UNCHANGED <<other, req, raw_text, text, scrape_exc, calls, returns, taskvars,
                 related, outcome>>

\* await asyncio.gather(...) raising the first exception of a task
JoinRaise ==
  /\ pc = "gather"
  /\ gather_exc # NoExc
  /\ outcome' = Raised(gather_exc)
  /\ pc' = "done"
  /\ UNCHANGED <<other, req, raw_text, text, scrape_exc, calls, returns, taskvars,
                 locals>>

\* 3) asyncio.to_thread(fetch_articles, keywords) is started
FetchStart ==
  /\ pc = "fetch"
  /\ calls' = Call("fetch_articles", keywords)
  /\ pc' = "fetching"
  /\ UNCHANGED <<other, req, raw_text, text, scrape_exc, returns, taskvars, locals,
                 outcome>>

\* (mutant) no trim
TrimNothing(list) == list

\* (mutant) related[-7:]
TrimLast(list) == SubSeq(list, IF Len(list) < RelatedCap THEN 1
                               ELSE Len(list) - RelatedCap + 1, Len(list))

\* related[:7]
Trim(list) == SubSeq(list, 1, IF Len(list) < RelatedCap THEN Len(list)
                                ELSE RelatedCap)

\* (mutant) the full pipeline's dict carrying a note too
FullResponseWithNote(list) ==
  [keywords |-> keywords,
   sentiment |-> sentiment,
   bias |-> bias,
   related_articles |-> Trim(list),
   note |-> ShortNote]

\* the dict returned on the full pipeline
FullResponse(list) ==
  [keywords |-> keywords,
   sentiment |-> sentiment,
   bias |-> bias,
   related_articles |-> Trim(list)]

\* related = await ..., returning; then the return
FetchReturn(list) ==
  /\ pc = "fetching"
  /\ returns' = Return("fetch_articles", list)
  /\ related' = list
  /\ outcome' = Response(FullResponse(list))
  /\ pc' = "done"
  /\ UNCHANGED <<other, req, raw_text, text, scrape_exc, calls, taskvars, sentiment,
                 bias, keywords>>

\* (mutant) a failed retrieval degraded to an empty list
FetchRaiseDegraded ==
  /\ pc = "fetching"
  /\ related' = <<>>
  /\ outcome' = Response(FullResponse(<<>>))
  /\ pc' = "done"
  /\ UNCHANGED <<other, req, raw_text, text, scrape_exc, calls, returns, taskvars,
                 sentiment, bias, keywords>>

\* await asyncio.to_thread(fetch_articles, keywords) raising
FetchRaise ==
  /\ pc = "fetching"
  /\ outcome' = Raised(ErrorOf("fetch_articles"))
  /\ pc' = "done"
  /\ UNCHANGED <<other, req, raw_text, text, scrape_exc, calls, returns, taskvars,
                 locals>>

Next ==
  \/ PickSource
  \/ \E art_text \in ArticleTexts : ScrapeReturn(art_text)
  \/ \E e \in ScrapeErrors : ScrapeRaise(e)
  \/ Normalize
  \/ \E s \in SentimentValues : ShortReturn(s)
  \/ ShortRaise
  \/ Dispatch
  \/ \E t \in Tasks : TaskStart(t)
  \/ \E t \in Tasks : \E v \in Results(TaskFn(t)) : TaskReturn(t, v)
  \/ \E t \in Tasks : TaskRaise(t)
  \/ JoinOk
  \/ JoinRaise
  \/ FetchStart
  \/ \E list \in ArticleLists : FetchReturn(list)
  \/ FetchRaise

Spec == Init /\ [][Next]_vars

\* The event loop runs whatever is ready and every worker thread gets to
\* run; every external call that was started returns or raises.
\* Here a request carries a text, or a url alone.
FairInit == Init /\ (req.text = None \/ req.url = None)

FairSpec == FairInit /\ [][Next]_vars /\ WF_vars(Next)

\* ------------------------------------------- _normalize_text on its own
\* The function applied to any string, then to its own result.
MaxNormRuns == 4

NormRuns == {[c |-> ch, n |-> k] : ch \in Chars \cup {"b"}, k \in {1, 3}}

NormStrings ==
  {s \in UNION {[1..m -> NormRuns] : m \in 0..MaxNormRuns} : Canonical(s)}

NormInit ==
  /\ other = NoFrame
  /\ req \in [text : {None} \cup {Some(s) : s \in NormStrings}, url : {None}]
  /\ raw_text = req.text
  /\ pc = "normalize"
  /\ text = None
  /\ scrape_exc = NoExc
  /\ calls = [f \in Capabilities |-> <<>>]
  /\ returns = [f \in Capabilities |-> <<>>]
  /\ task = [t \in Tasks |-> "unborn"]
  /\ result = [t \in Tasks |-> UnboundResult(t)]
  /\ gather_exc = NoExc
  /\ finished = <<>>
  /\ sentiment = Unbound
  /\ bias = Unbound
  /\ keywords = UnboundKeywords
  /\ related = UnboundArticles
  /\ outcome = Pending

\* text = _normalize_text(raw_text)
NormApply ==
  /\ pc = "normalize"
  /\ text' = Some(normalize_text(raw_text))
  /\ pc' = "normalized"
  /\ UNCHANGED <<other, req, raw_text, scrape_exc, calls, returns, taskvars, locals,
                 outcome>>

\* _normalize_text applied to its own result
NormReapply ==
  /\ pc = "normalized"
  /\ raw_text' = text
  /\ text' = Some(normalize_text(text))
  /\ pc' = "renormalized"
  /\ UNCHANGED <<other, req, scrape_exc, calls, returns, taskvars, locals, outcome>>

NormNext ==
  \/ NormApply
  \/ NormReapply

SpecNorm == NormInit /\ [][NormNext]_vars

\* ------------------------------------------------- two calls at once
\* Each call of process_article has its own frame: its request, its
\* position, its locals, its tasks.  The module keeps no other state.  Two
\* calls are interleaved by suspending one frame and resuming the other.
Frame ==
  [req |-> req, pc |-> pc, raw_text |-> raw_text, text |-> text,
   scrape_exc |-> scrape_exc, calls |-> calls, returns |-> returns,
   task |-> task, result |-> result, gather_exc |-> gather_exc,
   finished |-> finished, sentiment |-> sentiment, bias |-> bias,
   keywords |-> keywords, related |-> related, outcome |-> outcome]

\* (mutant) text kept in a module-level global: resuming a call finds the
\* value the other call left there
ResumedSharedText(f) == [f EXCEPT !.text = IF text = None THEN @ ELSE text]

\* what a resumed call finds: its own frame
Resumed(f) == f

\* the running call is suspended and the other one resumed
Switch ==
  /\ other # NoFrame
  /\ other' = Frame
  /\ req' = Resumed(other).req
  /\ pc' = Resumed(other).pc
  /\ raw_text' = Resumed(other).raw_text
  /\ text' = Resumed(other).text
  /\ scrape_exc' = Resumed(other).scrape_exc
  /\ calls' = Resumed(other).calls
  /\ returns' = Resumed(other).returns
  /\ task' = Resumed(other).task
  /\ result' = Resumed(other).result
  /\ gather_exc' = Resumed(other).gather_exc
  /\ finished' = Resumed(other).finished
  /\ sentiment' = Resumed(other).sentiment
  /\ bias' = Resumed(other).bias
  /\ keywords' = Resumed(other).keywords
  /\ related' = Resumed(other).related
  /\ outcome' = Resumed(other).outcome

\* Deterministic capabilities: what each one does is fixed by its argument.
TextA == <<[c |-> "a", n |-> 100], [c |-> " ", n |-> 1], [c |-> "a", n |-> 99]>>
TextB == <<[c |-> "a", n |-> 99], [c |-> " ", n |-> 1], [c |-> "a", n |-> 100]>>
TextC == <<[c |-> "a", n |-> 100], [c |-> " ", n |-> 1], [c |-> "a", n |-> 100]>>
UrlGood == <<[c |-> "a", n |-> 99]>>
UrlDead == <<[c |-> "a", n |-> 100]>>

DetRaises(f, arg) ==
  CASE f = "_scrape_with_newspaper" -> arg = UrlDead
    [] f = "analyze_sentiment" -> arg \in {UrlGood, TextC}
    [] f = "classify_political_bias" -> arg = TextC
    [] f = "extract_topics" -> FALSE
    [] f = "fetch_articles" -> arg = <<>>

DetValue(f, arg) ==
  CASE f = "_scrape_with_newspaper" -> <<[c |-> "a", n |-> 99]>>
    [] f = "analyze_sentiment" ->
         IF arg = TextA THEN "positive" ELSE "negative"
    [] f = "classify_political_bias" ->
         IF arg = TextA THEN "left" ELSE "center"
    [] f = "extract_topics" ->
         IF arg = TextB THEN <<>> ELSE <<"economy", "election">>
    [] f = "fetch_articles" -> [i \in 1..(RelatedCap + 1) |-> i]

\* the running call's capabilities behaved as fixed above
Deterministic ==
  /\ \A f \in Capabilities :
       /\ Len(calls[f]) <= 1
       /\ returns[f] # <<>> =>
            /\ ~DetRaises(f, calls[f][1])
            /\ returns[f] = <<DetValue(f, calls[f][1])>>
  /\ scrape_exc # NoExc =>
       /\ DetRaises("_scrape_with_newspaper", calls["_scrape_with_newspaper"][1])
       /\ scrape_exc = "timed out"
  /\ \A t \in Tasks :
       task[t] = "failed" => DetRaises(TaskFn(t), calls[TaskFn(t)][1])
  /\ (outcome.kind = "raised" /\ pc = "done" /\ gather_exc = NoExc) =>
       \E f \in {"analyze_sentiment", "fetch_articles"} :
         /\ outcome.exc = ErrorOf(f)
         /\ calls[f] # <<>>
         /\ DetRaises(f, calls[f][1])

TwoRequests ==
  {[text |-> None, url |-> None],
   [text |-> Some(<<[c |-> "a", n |-> 1], [c |-> "\n", n |-> 1]>>),
    url |-> Some(UrlDead)],
   [text |-> Some(<<[c |-> "a", n |-> 100], [c |-> "\n", n |-> 1],
                    [c |-> " ", n |-> 1], [c |-> "a", n |-> 99]>>),
    url |-> None],
   [text |-> Some(TextB), url |-> None],
   [text |-> Some(TextC), url |-> None],
   [text |-> Some(<<[c |-> " ", n |-> 1]>>),
    url |-> Some(<<[c |-> " ", n |-> 1], [c |-> "a", n |-> 99]>>)],
   [text |-> None, url |-> Some(UrlDead)]}

\* a call that has just been made
NewFrame(r) ==
  [req |-> r, pc |-> "pick_source", raw_text |-> None, text |-> None,
   scrape_exc |-> NoExc, calls |-> [f \in Capabilities |-> <<>>],
   returns |-> [f \in Capabilities |-> <<>>],
   task |-> [t \in Tasks |-> "unborn"],
   result |-> [t \in Tasks |-> UnboundResult(t)], gather_exc |-> NoExc,
   finished |-> <<>>, sentiment |-> Unbound, bias |-> Unbound,
   keywords |-> UnboundKeywords,
   related |-> UnboundArticles, outcome |-> Pending]

TwoInit ==
  /\ other \in {NewFrame(r) : r \in TwoRequests}
  /\ req \in TwoRequests
  /\ pc = "pick_source"
  /\ raw_text = None
  /\ text = None
  /\ scrape_exc = NoExc
  /\ calls = [f \in Capabilities |-> <<>>]
  /\ returns = [f \in Capabilities |-> <<>>]
  /\ task = [t \in Tasks |-> "unborn"]
  /\ result = [t \in Tasks |-> UnboundResult(t)]
  /\ gather_exc = NoExc
  /\ finished = <<>>
  /\ sentiment = Unbound
  /\ bias = Unbound
  /\ keywords = UnboundKeywords
  /\ related = UnboundArticles
  /\ outcome = Pending

TwoNext ==
  \/ PickSource /\ Deterministic'
  \/ \E art_text \in ArticleTexts : ScrapeReturn(art_text) /\ Deterministic'
  \/ \E e \in ScrapeErrors : ScrapeRaise(e) /\ Deterministic'
  \/ Normalize /\ Deterministic'
  \/ \E s \in SentimentValues : ShortReturn(s) /\ Deterministic'
  \/ ShortRaise /\ Deterministic'
  \/ Dispatch /\ Deterministic'
  \/ \E t \in Tasks : TaskStart(t) /\ Deterministic'
  \/ \E t \in Tasks : \E v \in Results(TaskFn(t)) :
       TaskReturn(t, v) /\ Deterministic'
  \/ \E t \in Tasks : TaskRaise(t) /\ Deterministic'
  \/ JoinOk /\ Deterministic'
  \/ JoinRaise /\ Deterministic'
  \/ FetchStart /\ Deterministic'
  \/ \E list \in ArticleLists : FetchReturn(list) /\ Deterministic'
  \/ FetchRaise /\ Deterministic'
  \/ Switch

TwoSpec == TwoInit /\ [][TwoNext]_vars

\* =================================================================
\* Properties
\* =================================================================

\* the request field is absent, or blank after trimming
Blank(x) == x = None \/ \A i \in 1..Len(x.val) : x.val[i].c \in {" ", "\n"}

Done == pc = "done"
IsResponse == outcome.kind = "response"
IsError == IsResponse /\ DOMAIN outcome.body = {"error"}
IsSuccess == IsResponse /\ "error" \notin DOMAIN outcome.body
Called(f) == Len(calls[f])

\* the handler resolved a text, and it is short / long
TextIsShort == text # None /\ StrLen(text.val) < 200
TextIsLong == text # None /\ StrLen(text.val) >= 200

\* C1: a request whose text and url are both absent or blank ends with
\* {error: "Please provide either text or a valid URL."}, and at no time
\* has any external capability been called for it.
C1_InvalidRequest ==
  (Blank(req.text) /\ Blank(req.url)) =>
    /\ \A f \in Capabilities : Called(f) = 0
    /\ pc \in {"pick_source", "done"}
    /\ Done =>
         outcome = Response(
           [error |-> <<"Please provide either text or a valid URL.">>])

C1_Witness ==
  /\ Done
  /\ req.text # None /\ req.text.val # <<>> /\ Blank(req.text)
  /\ req.url # None /\ req.url.val # <<>> /\ Blank(req.url)
  /\ IsError

\* C2: when the request's text is non-blank, the scraper is never called,
\* whatever the url, and the text the handler works on (and hands to every
\* analysis) is the normalized, stripped text field.
C2_TextTakesPrecedence ==
  ~Blank(req.text) =>
    /\ Called("_scrape_with_newspaper") = 0
    /\ pc # "scrape"
    /\ text # None => text.val = normalize_text(Some(Strip(req.text.val)))
    /\ \A f \in Analyzers : \A i \in 1..Called(f) :
         calls[f][i] = normalize_text(Some(Strip(req.text.val)))

C2_Witness ==
  /\ ~Blank(req.text)
  /\ ~Blank(req.url)
  /\ Done
  /\ IsSuccess
  /\ Called("analyze_sentiment") = 1

\* C3: with a blank text and a non-blank url the scraper is called exactly
\* once, with the trimmed url; when that call raises, the request ends with
\* {error: "Failed to extract article from URL: <cause>"}, there is no
\* second scrape and no analysis or retrieval is called.
C3_ScrapeFailure ==
  (Blank(req.text) /\ ~Blank(req.url)) =>
    /\ Called("_scrape_with_newspaper") <= 1
    /\ pc \notin {"pick_source", "scrape"} =>
         calls["_scrape_with_newspaper"] = <<Strip(req.url.val)>>
    /\ scrape_exc # NoExc =>
         /\ Done
         /\ outcome = Response(
              [error |-> <<"Failed to extract article from URL: ",
                           scrape_exc>>])
         /\ Called("_scrape_with_newspaper") = 1
         /\ \A f \in Capabilities \ {"_scrape_with_newspaper"} :
              Called(f) = 0

C3_Witness ==
  /\ Blank(req.text)
  /\ scrape_exc = "timed out"
  /\ Done
  /\ IsError

\* C4: a successful response for a normalized text shorter than 200 has
\* keywords ["news","world","article"], bias "center", no related
\* articles, a non-empty note, and as sentiment the value analyze_sentiment
\* returned when called (once) on the normalized text.
C4_ShortFallback ==
  (TextIsShort /\ IsSuccess) =>
    /\ DOMAIN outcome.body =
         {"keywords", "sentiment", "bias", "related_articles", "note"}
    /\ outcome.body.keywords = <<"news", "world", "article">>
    /\ outcome.body.bias = "center"
    /\ outcome.body.related_articles = <<>>
    /\ outcome.body.note # ""
    /\ calls["analyze_sentiment"] = <<text.val>>
    /\ returns["analyze_sentiment"] = <<outcome.body.sentiment>>

C4_Witness ==
  /\ TextIsShort
  /\ StrLen(text.val) = 199
  /\ IsSuccess
  /\ outcome.body.sentiment = "negative"

\* C5: for a normalized text of length >= 200 each of analyze_sentiment,
\* classify_political_bias and extract_topics is called at most once, only
\* ever with the normalized text, and exactly once by the time the tasks
\* have all finished or a successful response exists.
C5_EachAnalysisOnce ==
  TextIsLong =>
    /\ \A f \in Analyzers :
         /\ Called(f) <= 1
         /\ \A i \in 1..Called(f) : calls[f][i] = text.val
    /\ pc \notin {"dispatch"} => \A t \in Tasks : task[t] # "unborn"
    /\ (IsSuccess \/ \A t \in Tasks : task[t] \in {"ok", "failed"}) =>
         \A f \in Analyzers : Called(f) = 1

C5_Witness ==
  /\ TextIsLong
  /\ StrLen(text.val) = 200
  /\ raw_text.val # text.val
  /\ IsSuccess

\* C6: whatever the order in which the three tasks complete, a full
\* pipeline response carries in sentiment, bias and keywords the values
\* returned by analyze_sentiment, classify_political_bias and
\* extract_topics respectively.
C6_ResultsAttributedByName ==
  (TextIsLong /\ IsSuccess) =>
    /\ <<outcome.body.sentiment>> = returns["analyze_sentiment"]
    /\ <<outcome.body.bias>> = returns["classify_political_bias"]
    /\ <<outcome.body.keywords>> = returns["extract_topics"]

C6_Witness ==
  /\ TextIsLong
  /\ IsSuccess
  /\ finished = <<"topics_task", "bias_task", "sentiment_task">>
  /\ outcome.body.sentiment = "negative"
  /\ outcome.body.bias = "left"
  /\ outcome.body.keywords = <<"economy", "election">>

\* C7: related_articles of a successful response never holds more than 7
\* entries, however many fetch_articles returned.
C7_RelatedAtMostSeven ==
  IsSuccess => Len(outcome.body.related_articles) <= 7

C7_Witness ==
  /\ IsSuccess
  /\ Called("fetch_articles") = 1
  /\ Len(returns["fetch_articles"][1]) > 7
  /\ Len(outcome.body.related_articles) = 7

\* C8: once one of the three tasks has failed there is no response for the
\* request and fetch_articles is never called; the request ends with the
\* exception of the first task that failed.
C8_AnalysisFailureSurfaces ==
  (\E t \in Tasks : task[t] = "failed") =>
    /\ Called("fetch_articles") = 0
    /\ ~IsResponse
    /\ pc \in {"gather", "done"}
    /\ Done =>
         /\ outcome.kind = "raised"
         /\ \E i \in 1..Len(finished) :
              /\ task[finished[i]] = "failed"
              /\ \A j \in 1..(i - 1) : task[finished[j]] = "ok"
              /\ outcome.exc = ErrorOf(TaskFn(finished[i]))

C8_Witness ==
  /\ Done
  /\ task["topics_task"] = "failed"
  /\ task["sentiment_task"] = "ok"
  /\ task["bias_task"] = "ok"
  /\ outcome = Raised("TopicError")

\* C9: every request that has ended has ended with a response (a success,
\* or {error: message}): no exception leaves the handler.
C9_NoUnhandledException ==
  Done => /\ IsResponse
          /\ (IsError \/ IsSuccess)

\* C10: fetch_articles is started only when all three tasks have completed
\* successfully, so never while one of them is pending or running, and it
\* is called with the keywords extract_topics returned.
C10_FetchAfterJoin ==
  (pc \in {"fetch", "fetching"} \/ Called("fetch_articles") > 0) =>
    /\ \A t \in Tasks : task[t] = "ok"
    /\ Called("fetch_articles") <= 1
    /\ calls["fetch_articles"] \in {<<>>, returns["extract_topics"]}
    /\ Len(returns["extract_topics"]) = 1

C10_Witness ==
  /\ pc = "fetching"
  /\ calls["fetch_articles"] = <<<<"economy", "election">>>>

\* C14: a response has a note exactly when it is the successful response
\* of the short-text path; full-pipeline responses and error responses
\* have none.
C14_NoteOnlyOnShortPath ==
  IsResponse =>
    (("note" \in DOMAIN outcome.body) <=> (IsSuccess /\ TextIsShort))

C14_Witness ==
  /\ IsSuccess
  /\ TextIsLong
  /\ DOMAIN outcome.body =
       {"keywords", "sentiment", "bias", "related_articles"}

\* C15: once the text is normalized, its length alone picks the path.
\* Below 200 the handler is on the short path: no task exists, neither
\* classify_political_bias nor extract_topics nor fetch_articles is ever
\* called, and analyze_sentiment is called once.  From 200 on (200
\* included) it is on the full pipeline: it never stands on the short path
\* and never answers with the short-path response.
C15_PathByNormalizedLength ==
  text # None =>
    /\ StrLen(text.val) < 200 =>
         /\ pc \in {"short", "done"}
         /\ \A t \in Tasks : task[t] = "unborn"
         /\ Called("classify_political_bias") = 0
         /\ Called("extract_topics") = 0
         /\ Called("fetch_articles") = 0
         /\ Called("analyze_sentiment") = (IF Done THEN 1 ELSE 0)
    /\ StrLen(text.val) >= 200 =>
         /\ pc \in {"dispatch", "gather", "fetch", "fetching", "done"}
         /\ pc # "dispatch" => \A t \in Tasks : task[t] # "unborn"
         /\ IsSuccess => "note" \notin DOMAIN outcome.body

C15_Witness ==
  /\ text # None
  /\ StrLen(text.val) = 200
  /\ StrLen(raw_text.val) = 201
  /\ pc = "gather"

C15_WitnessShort ==
  /\ text # None
  /\ StrLen(text.val) = 199
  /\ StrLen(raw_text.val) = 200
  /\ Done

\* C16: when fetch_articles fails after the three analyses succeeded, the
\* request ends with that failure: there is no response, so none with an
\* empty related_articles in place of the failed retrieval.
C16_RetrievalFailureIsFatal ==
  (Done /\ Called("fetch_articles") = 1 /\ returns["fetch_articles"] = <<>>)
    => /\ ~IsResponse
       /\ outcome = Raised("RetrievalError")

C16_Witness ==
  /\ Done
  /\ \A t \in Tasks : task[t] = "ok"
  /\ Called("fetch_articles") = 1
  /\ returns["fetch_articles"] = <<>>
  /\ outcome.kind = "raised"

\* C18: related_articles of a full-pipeline response is the list
\* fetch_articles returned cut to its first min(7, n) entries, entries and
\* order unchanged; a list of at most 7 entries is passed through.
C18_RelatedIsPrefix ==
  (IsSuccess /\ TextIsLong) =>
    LET fetched == returns["fetch_articles"][1]
        shown == outcome.body.related_articles
    IN /\ Len(shown) = (IF Len(fetched) < 7 THEN Len(fetched) ELSE 7)
       /\ \A i \in 1..Len(shown) : shown[i] = fetched[i]
       /\ Len(fetched) <= 7 => shown = fetched

C18_Witness ==
  /\ IsSuccess
  /\ TextIsLong
  /\ Len(returns["fetch_articles"][1]) = 8
  /\ outcome.body.related_articles = <<1, 2, 3, 4, 5, 6, 7>>

\* C19: when the text comes from the url and the scraper returns a text
\* whose normalized length is below 200 (the empty text included), the
\* request never ends with an error response: the handler goes down the
\* short path, calls analyze_sentiment on the normalized text, and answers
\* with the fixed fallback response carrying the sentiment it got; the only
\* other ending is analyze_sentiment itself raising.
C19_EmptyScrapeIsNotAnError ==
  (/\ Blank(req.text)
   /\ returns["_scrape_with_newspaper"] # <<>>
   /\ StrLen(normalize_text(Some(returns["_scrape_with_newspaper"][1])))
        < 200)
    => /\ ~IsError
       /\ pc \in {"normalize", "short", "done"}
       /\ Done =>
            /\ calls["analyze_sentiment"] =
                 <<normalize_text(Some(returns["_scrape_with_newspaper"][1]))>>
            /\ \/ /\ outcome.kind = "raised"
                  /\ returns["analyze_sentiment"] = <<>>
               \/ /\ IsSuccess
                  /\ outcome.body =
                       [keywords |-> <<"news", "world", "article">>,
                        sentiment |-> returns["analyze_sentiment"][1],
                        bias |-> "center",
                        related_articles |-> <<>>,
                        note |-> outcome.body.note]

C19_Witness ==
  /\ Blank(req.text)
  /\ returns["_scrape_with_newspaper"] = << <<>> >>
  /\ calls["analyze_sentiment"] = << <<>> >>
  /\ Done
  /\ IsSuccess

\* the whitespace-free pieces of s: the maximal stretches of runs that hold
\* no whitespace character, as (first, last) positions
TokenSpans(s) ==
  {<<i, j>> \in (1..Len(s)) \X (1..Len(s)) :
     /\ i <= j
     /\ \A k \in i..j : s[k].c \notin {" ", "\n"}
     /\ i = 1 \/ s[i - 1].c \in {" ", "\n"}
     /\ j = Len(s) \/ s[j + 1].c \in {" ", "\n"}}

\* ... as strings, in their order in s
TokensOf(s) ==
  [m \in 1..Cardinality(TokenSpans(s)) |->
     LET sp == CHOOSE x \in TokenSpans(s) :
                 Cardinality({y \in TokenSpans(s) : y[1] < x[1]}) = m - 1
     IN SubSeq(s, sp[1], sp[2])]

\* the string the normalizer was first given (None read as "")
NormInput == IF req.text = None THEN <<>> ELSE req.text.val

\* C12: _normalize_text applied to its own result gives that result again,
\* for every string and for None.
C12_NormalizeIdempotent ==
  pc = "renormalized" => text = raw_text

C12_Witness ==
  /\ pc = "renormalized"
  /\ NormInput = <<[c |-> " ", n |-> 3], [c |-> "a", n |-> 1],
                   [c |-> " ", n |-> 3], [c |-> "\n", n |-> 1]>>
  /\ raw_text.val = <<[c |-> "a", n |-> 1]>>
  /\ text = raw_text

\* C13: the result of _normalize_text neither starts nor ends with
\* whitespace, holds no whitespace but single spaces, never two in a row,
\* and has the whitespace-free pieces of its input, in the same order.
C13_NormalizeShape ==
  pc = "normalized" =>
    LET out == text.val
    IN /\ out # <<>> =>
            /\ out[1].c \notin {" ", "\n"}
            /\ out[Len(out)].c \notin {" ", "\n"}
       /\ \A i \in 1..Len(out) :
            out[i].c \in {" ", "\n"} => out[i] = [c |-> " ", n |-> 1]
       /\ \A i \in 1..(Len(out) - 1) :
            ~(out[i].c \in {" ", "\n"} /\ out[i + 1].c \in {" ", "\n"})
       /\ TokensOf(out) = TokensOf(NormInput)

C13_Witness ==
  /\ pc = "normalized"
  /\ NormInput = <<[c |-> "\n", n |-> 1], [c |-> "a", n |-> 3],
                   [c |-> "b", n |-> 1], [c |-> " ", n |-> 3]>>
  /\ text.val = <<[c |-> "a", n |-> 3], [c |-> "b", n |-> 1]>>

\* C17: every request ends, and ends once: whatever the interleaving of
\* the three tasks the handler reaches its end, with a response or with an
\* exception, the wait on gather never stays stuck, and an outcome once
\* produced is never replaced.
C17_EndsExactlyOnce ==
  /\ <>Done
  /\ [](Done <=> outcome.kind \in {"response", "raised"})
  /\ [][outcome.kind # "pending" => outcome' = outcome /\ pc' = pc]_<<pc, outcome>>

C17_Witness ==
  /\ Done
  /\ outcome = Raised("BiasError")
  /\ task["sentiment_task"] = "submitted"
  /\ task["topics_task"] = "running"

\* what a request gets when it is handled alone, the capabilities being the
\* deterministic ones: the outcomes of text t ...
AloneOnText(t) ==
  IF StrLen(t) < 200
  THEN IF DetRaises("analyze_sentiment", t)
       THEN {Raised("SentimentError")}
       ELSE {Response([keywords |-> <<"news", "world", "article">>,
                       sentiment |-> DetValue("analyze_sentiment", t),
                       bias |-> "center",
                       related_articles |-> <<>>,
                       note |-> ShortNote])}
  ELSE IF \E f \in Analyzers : DetRaises(f, t)
       THEN {Raised(ErrorOf(f)) : f \in {g \in Analyzers : DetRaises(g, t)}}
       ELSE IF DetRaises("fetch_articles", DetValue("extract_topics", t))
            THEN {Raised("RetrievalError")}
            ELSE {Response(
                   [keywords |-> DetValue("extract_topics", t),
                    sentiment |-> DetValue("analyze_sentiment", t),
                    bias |-> DetValue("classify_political_bias", t),
                    related_articles |->
                      SubSeq(DetValue("fetch_articles",
                                      DetValue("extract_topics", t)), 1, 7)])}

\* ... and of request r
Alone(r) ==
  IF ~Blank(r.text)
  THEN AloneOnText(Join(Space, Split(Strip(r.text.val))))
  ELSE IF ~Blank(r.url)
       THEN IF DetRaises("_scrape_with_newspaper", Strip(r.url.val))
            THEN {Response([error |->
                    <<"Failed to extract article from URL: ", "timed out">>])}
            ELSE AloneOnText(Join(Space,
                   Split(DetValue("_scrape_with_newspaper",
                                  Strip(r.url.val)))))
       ELSE {Response(
              [error |-> <<"Please provide either text or a valid URL.">>])}

\* C11: two requests handled at once, their steps interleaved in any way,
\* each end as they end when handled alone (the capabilities being
\* deterministic): neither handler sees anything the other one wrote.
C11_NoInterference ==
  /\ Done => outcome \in Alone(req)
  /\ other.pc = "done" => other.outcome \in Alone(other.req)

C11_Witness ==
  /\ Done
  /\ IsSuccess
  /\ text = Some(TextA)
  /\ task["sentiment_task"] = "ok"
  /\ other.pc = "gather"
  /\ other.text = Some(TextC)
  /\ other.task["bias_task"] = "failed"
  /\ other.task["topics_task"] = "running"

====
